---- MODULE Spec2Model ----
(***************************************************************************)
(* A model of zonis.router.Router: one Router, the transport under it, the *)
(* peer on the other end of the wire, the callers of its public methods   *)
(* and the request handler (Client._request_handler /                      *)
(* Server._request_handler) registered as its receiver.                    *)
(*                                                                         *)
(* Every asyncio task is a process of the model: the pipe loop             *)
(* (_handle_pipe), the two tasks it waits on (transport receive and        *)
(* queue get), the client's identify task and one task per inbound         *)
(* request.  A step of the model is the code a task runs between two       *)
(* suspension points.                                                      *)
(*                                                                         *)
(* Spec is the Router a Server starts with connect_server, ClientSpec the  *)
(* Router a Client starts with connect_client, SlowSpec the Router with    *)
(* handlers that may never return, on a transport that does not fail.      *)
(***************************************************************************)
EXTENDS Integers, Sequences, FiniteSets, TLC

\* ------------------------------------------------------------ bounds

\* What the Router's environment does in one run: the calls of send() and
\* close() by the callers, the frames the peer puts on the wire and the
\* faults of the transport, counted together.
MaxEvents == 4

\* The replies the handlers of a congested Router queue in one run.
MaxReplies == 52

\* ------------------------------------------------- program constants

\* Router.__init__(max_retries=3)
max_retries == 3

\* Router.__init__(retry_on_exception=True)
retry_on_exception == TRUE

\* Client.__init__(reconnect_attempt_count=1): kept in the Client, which
\* builds its Router as Router(self.identifier).
reconnect_attempt_count == 1

\* Router._EXIT_LITERAL
EXIT_LITERAL == "CLOSE_FUTURE"

\* The queue size above which _check_for_congestion warns.
congestion_limit == 50

\* ------------------------------------------------------------ values

\* The payload types a response envelope carries in its data (Packet.type).
ResponseData == {"SUCCESS_RESPONSE", "FAILURE_RESPONSE"}

\* Route names the peer asks for.
RouteNames == {"ping", "boom", "nope"}

\* The endpoint's route table (_routes): "ping" returns, "boom" raises.
routes == {"ping", "boom"}
RaisingRoutes == {"boom"}

\* A key missing from a decoded frame.
Absent == "absent"
AbsentId == <<"absent", 0>>

\* packet ids this Router generates (secrets.token_bytes(16).hex(): fresh
\* on every call) and the ids the peer generates for its own requests.
RouterId(n) == <<"r", n>>
PeerId(n) == <<"p", n>>
RouterIds == {RouterId(n) : n \in 1..(MaxEvents + max_retries + 1)}
\* An id this Router never issued.
UnknownId == RouterId(0)

NoPacket == [type |-> Absent, packet_id |-> AbsentId, data |-> Absent]

\* No frame was handled yet.
NoFrame == [json |-> FALSE, type |-> "none", packet_id |-> AbsentId,
            data |-> "none"]

\* asyncio.Task states of the two tasks the pipe loop waits on.  val holds
\* the task's result (one element) once it is done.
NoTask == [st |-> "none", val |-> <<>>]
PendingTask == [st |-> "pending", val |-> <<>>]
FailedTask == [st |-> "failed", val |-> <<>>]
DoneTask(v) == [st |-> "done", val |-> <<v>>]

\* ------------------------------------------------- the registry: values

\* The functions registered as routes.
Callbacks == {"f", "g"}

\* dict.get(name) of a name that is not a key.
NoCallback == "none"

\* No call of the registry yet.
NoRouteCall == [op |-> "none", name |-> "", func |-> "none", raised |-> "none"]

\* ------------------------------------------------- the Server: values

\* What the Server's environment does in one run: the connections the host
\* hands to parse_identify, the calls of request and disconnect, and the
\* connections that are lost, counted together.
MaxServerEvents == 3

\* The same in a run with a call of request_all, that call counted too.
MaxFanoutEvents == 5

\* Client identifiers (Client.identifier), in the order in which the run
\* first uses them.
Identifiers == <<"one", "two", "three">>

\* Server.__init__(secret_key=..., override_key=...) as the host configured it.
secret_key == "secret"
override_key == "override"

\* The keys an IDENTIFY packet can carry; "none" is a missing override_key.
SecretKeys == {secret_key, "wrong"}
OverrideKeys == {"none", override_key, "wrong"}

\* The websockets the host accepts, in the order it accepts them: the n-th
\* call of parse_identify is given websocket n and, if it gets that far,
\* builds Router n on it.
Sockets == 1..MaxFanoutEvents
NoRouter == 0

\* packet ids: of the IDENTIFY request sent on websocket n, of the request of
\* the k-th call of Server.request, of the request request_all sends for the
\* table entry at position k.
IdentifyId(n) == <<"c", n>>
RequestId(k) == <<"s", k>>
FanoutId(k) == <<"a", k>>

\* The Packet a route handler's reply carries.
Payload(type, data) == [type |-> type, data |-> data]

\* A websocket nobody has been given yet, with no Router on it.
NoSocket ==
    [close_code |-> 0,        \* code of websocket.close(), 0: not closed
     identifier |-> "",       \* Router.identifier
     pipe |-> "none",         \* "none" | "running" | "closed" | "crashed"
     item_queue |-> <<>>,     \* Router._item_queue
     futures |-> {},          \* keys of Router._futures
     done |-> {},             \* completed futures: [packet_id, payload]
     ack |-> AbsentId,        \* packet id the IDENTIFY acknowledgment answers
     to_server |-> <<>>]      \* written by the client, not yet read by the Router

\* request_all has not been called.
NoFanout ==
    [pc |-> "idle",           \* "idle" | "await" | "returned" | "raised"
     route |-> "",
     pos |-> 1,               \* the dict iterator's position
     di_used |-> 0,           \* the dict's size when the iterator was made
     len |-> 0,               \* entries the iterator has yet to give
     at_call |-> {},          \* the identifiers connected at the call
     results |-> {},          \* results: [identifier, value]
     identifier |-> "", router |-> NoRouter, packet_id |-> AbsentId]

VARIABLES
    mode,                    \* "none" | "client" | "server": how it was started
    pipe,                    \* where _ws_task is, see TypeOK
    is_open,                 \* Router.__is_open
    receive_handler,         \* Router._receive_handler is not None
    futures,                 \* keys of Router._futures
    future_state,            \* state of every future send() has created
    next_id,                 \* number of packet ids generated so far + 1
    item_queue,              \* Router._item_queue
    receive_from_queue_task, \* Router._receive_from_queue_task
    receive_from_ws_task,    \* Router._receive_from_ws_task
    block_future,            \* Router._block_future is done
    connection_future,       \* Router._connection_future: "none"|"pending"|"done"
    attempted_connection_count,
    identify_wait,           \* packet ids the identify tasks are awaiting
    handlers,                \* running tasks of the receive handler
    replied,                 \* inbound request ids a handler has replied to
    raised,                  \* inbound request ids whose handler task died
    wire,                    \* what was written to the transport, in order
    next_seq,                \* number of envelopes enqueued so far + 1
    last_error,              \* the exception _handle_pipe last logged
    last_frame,              \* the frame _handle_pipe last gave _resolve_future
    events,                  \* what the environment has done so far
    frames,                  \* frames the peer has sent so far
    request_result,          \* Client.request calls: "waiting" or how they ended
    connections,             \* Server._connections
    routers,                 \* the websockets of the Server and their Routers
    rejecting,               \* parse_identify calls suspended in websocket.close
    calls,                   \* Server.request calls
    fanout,                  \* the Server.request_all call
    server_events,           \* what the Server's environment has done so far
    self_routes,             \* RouteHandler._routes: name -> callback
    deferred_routes,         \* route_registration.deferred_routes, in order
    route_call,              \* the last call of the registry and how it ended
    congestion_warnings,     \* warnings _check_for_congestion has logged
    abandoned_receive        \* the receive task the CLOSE branch let go of

vars == <<mode, pipe, is_open, receive_handler, futures, future_state, next_id,
          item_queue, receive_from_queue_task, receive_from_ws_task,
          block_future, connection_future, attempted_connection_count,
          identify_wait, handlers, replied, raised, wire, next_seq,
          last_error, last_frame, events, frames, request_result,
          connections, routers, rejecting, calls, fanout, server_events,
          self_routes, deferred_routes, route_call, congestion_warnings,
          abandoned_receive>>

\* ------------------------------------------------------------- Init

\* Router.__init__; receive_handler is TRUE for a Router built by Client or
\* Server (both register their _request_handler before starting it) and
\* FALSE for a bare Router.
Init ==
    /\ mode = "none"
    /\ pipe = "init"
    /\ is_open = TRUE
    /\ receive_handler \in BOOLEAN
    /\ futures = {}
    /\ future_state = [i \in RouterIds |-> "none"]
    /\ next_id = 1
    /\ item_queue = <<>>
    /\ receive_from_queue_task = NoTask
    /\ receive_from_ws_task = NoTask
    /\ block_future = FALSE
    /\ connection_future = "none"
    /\ attempted_connection_count = 0
    /\ identify_wait = {}
    /\ handlers = {}
    /\ replied = {}
    /\ raised = {}
    /\ wire = <<>>
    /\ next_seq = 1
    /\ last_error = "none"
    /\ last_frame = NoFrame
    /\ events = 0
    /\ frames = 0
    /\ request_result = [i \in RouterIds |-> "none"]
    /\ connections = <<>>
    /\ routers = [n \in Sockets |-> NoSocket]
    /\ rejecting = {}
    /\ calls = {}
    /\ fanout = NoFanout
    /\ server_events = 0
    /\ self_routes = [name \in RouteNames |-> NoCallback]
    /\ deferred_routes = <<>>
    /\ route_call = NoRouteCall
    /\ congestion_warnings = 0
    /\ abandoned_receive = "none"

\* ------------------------------------------------- inbound: _resolve_future

\* The exception leaves _resolve_future before anything was changed.
Raise(err, futs, fstate) ==
    [err |-> err, futures |-> futs, future_state |-> fstate, spawn |-> {}]

\* _resolve_future looking the slot up with get() where the code pops it.
resolve_future_keeps_slot(packet, futs, fstate, handler) ==
    IF ~packet.json THEN Raise("JSONDecodeError", futs, fstate)
    ELSE IF packet.type = Absent THEN Raise("UnknownPacket", futs, fstate)
    ELSE IF packet.data = Absent THEN Raise("UnknownPacket", futs, fstate)
    ELSE IF packet.packet_id = AbsentId THEN Raise("UnknownPacket", futs, fstate)
    ELSE IF packet.type = "response" THEN
        IF packet.packet_id \notin futs THEN Raise("UnknownPacket", futs, fstate)
        ELSE IF fstate[packet.packet_id] = "cancelled"
        THEN Raise("InvalidStateError", futs \ {packet.packet_id}, fstate)
        ELSE [err |-> "none",
              futures |-> futs,
              future_state |-> [fstate EXCEPT ![packet.packet_id] = packet.data],
              spawn |-> {}]
    ELSE IF ~handler THEN Raise("MissingReceiveHandler", futs, fstate)
    ELSE [err |-> "none", futures |-> futs, future_state |-> fstate,
          spawn |-> {[packet_id |-> packet.packet_id, route |-> packet.data]}]

\* _resolve_future reading the data with packet.get("data") where the code
\* checks that the key is there.
resolve_future_optional_data(packet, futs, fstate, handler) ==
    IF ~packet.json THEN Raise("JSONDecodeError", futs, fstate)
    ELSE IF packet.type = Absent THEN Raise("UnknownPacket", futs, fstate)
    ELSE IF packet.packet_id = AbsentId THEN Raise("UnknownPacket", futs, fstate)
    ELSE IF packet.type = "response" THEN
        IF packet.packet_id \notin futs THEN Raise("UnknownPacket", futs, fstate)
        ELSE IF fstate[packet.packet_id] = "cancelled"
        THEN Raise("InvalidStateError", futs \ {packet.packet_id}, fstate)
        ELSE [err |-> "none",
              futures |-> futs \ {packet.packet_id},
              future_state |-> [fstate EXCEPT ![packet.packet_id] = packet.data],
              spawn |-> {}]
    ELSE IF ~handler THEN Raise("MissingReceiveHandler", futs, fstate)
    ELSE [err |-> "none", futures |-> futs, future_state |-> fstate,
          spawn |-> {[packet_id |-> packet.packet_id, route |-> packet.data]}]

\* _resolve_future handing the receiver a reply function that is bound to no
\* packet id.
resolve_future_unbound_reply(packet, futs, fstate, handler) ==
    IF ~packet.json THEN Raise("JSONDecodeError", futs, fstate)
    ELSE IF packet.type = Absent THEN Raise("UnknownPacket", futs, fstate)
    ELSE IF packet.data = Absent THEN Raise("UnknownPacket", futs, fstate)
    ELSE IF packet.packet_id = AbsentId THEN Raise("UnknownPacket", futs, fstate)
    ELSE IF packet.type = "response" THEN
        IF packet.packet_id \notin futs THEN Raise("UnknownPacket", futs, fstate)
        ELSE IF fstate[packet.packet_id] = "cancelled"
        THEN Raise("InvalidStateError", futs \ {packet.packet_id}, fstate)
        ELSE [err |-> "none",
              futures |-> futs \ {packet.packet_id},
              future_state |-> [fstate EXCEPT ![packet.packet_id] = packet.data],
              spawn |-> {}]
    ELSE IF ~handler THEN Raise("MissingReceiveHandler", futs, fstate)
    ELSE [err |-> "none", futures |-> futs, future_state |-> fstate,
          spawn |-> {[packet_id |-> AbsentId, route |-> packet.data]}]

\* Router._resolve_future(raw_packet) on the slot map futs and the futures'
\* states fstate: the exception it raises ("none": it returns), the slot map
\* and states it leaves, and the receiver tasks it creates.  set_result on a
\* future its caller has cancelled raises InvalidStateError, the slot popped.
resolve_future(packet, futs, fstate, handler) ==
    IF ~packet.json THEN Raise("JSONDecodeError", futs, fstate)
    ELSE IF packet.type = Absent THEN Raise("UnknownPacket", futs, fstate)
    ELSE IF packet.data = Absent THEN Raise("UnknownPacket", futs, fstate)
    ELSE IF packet.packet_id = AbsentId THEN Raise("UnknownPacket", futs, fstate)
    ELSE IF packet.type = "response" THEN
        IF packet.packet_id \notin futs THEN Raise("UnknownPacket", futs, fstate)
        ELSE IF fstate[packet.packet_id] = "cancelled"
        THEN Raise("InvalidStateError", futs \ {packet.packet_id}, fstate)
        ELSE [err |-> "none",
              futures |-> futs \ {packet.packet_id},
              future_state |-> [fstate EXCEPT ![packet.packet_id] = packet.data],
              spawn |-> {}]
    ELSE IF ~handler THEN Raise("MissingReceiveHandler", futs, fstate)
    ELSE [err |-> "none", futures |-> futs, future_state |-> fstate,
          spawn |-> {[packet_id |-> packet.packet_id, route |-> packet.data]}]

\* ------------------------------------------------- outbound: the queue

RequestItem(seq, packet_id, data) ==
    [tag |-> "SEND_THEN_RECEIVE_RESPONSE", seq |-> seq,
     packet |-> [type |-> "request", packet_id |-> packet_id, data |-> data]]

ResponseItem(seq, packet_id, data) ==
    [tag |-> "SEND_RESPONSE", seq |-> seq,
     packet |-> [type |-> "response", packet_id |-> packet_id, data |-> data]]

CloseItem == [tag |-> EXIT_LITERAL, seq |-> 0, packet |-> NoPacket]

\* A queue that puts a new item ahead of those waiting.
put_nowait_front(q, item) == <<item>> \o q

\* asyncio.Queue.put_nowait
put_nowait(q, item) == Append(q, item)

\* Router._check_for_congestion on the queue q: the number of warnings
\* logged, w before the call.
check_for_congestion(q, w) == IF Len(q) > congestion_limit THEN w + 1 ELSE w

\* A queue that hands out the newest item first.
queue_get_lifo(q) == [item |-> q[Len(q)], rest |-> SubSeq(q, 1, Len(q) - 1)]

\* asyncio.Queue.get: the item it returns and the queue it leaves.
queue_get(q) == [item |-> Head(q), rest |-> Tail(q)]

\* An _ensure_tasks_exist that creates both tasks anew in every iteration.
ensure_tasks_exist_restarts(task) == PendingTask

\* Router._ensure_tasks_exist: a task that is None is created.
ensure_tasks_exist(task) == IF task.st = "none" THEN PendingTask ELSE task

\* A pipe loop that awaits the receiver it started before it waits again.
wait_returns_after_handlers(ws, q, hs) ==
    hs = {} /\ (ws.st \in {"done", "failed"} \/ q.st = "done")

\* asyncio.wait([ws task, queue task], return_when=FIRST_COMPLETED) returns:
\* the tasks of the receive handler (hs) are not among the awaited.
wait_returns(ws, q, hs) == ws.st \in {"done", "failed"} \/ q.st = "done"

\* ------------------------------------------------- the public methods

\* A send() that queues the envelope and records no slot for it.
SendBody_without_slot(data) ==
    /\ futures' = futures
    /\ future_state' = [future_state EXCEPT ![RouterId(next_id)] = "pending"]
    /\ item_queue' = put_nowait(item_queue,
                                RequestItem(next_seq, RouterId(next_id), data))
    /\ congestion_warnings' =
           check_for_congestion(item_queue', congestion_warnings)
    /\ next_id' = next_id + 1
    /\ next_seq' = next_seq + 1
    /\ wire' = wire

\* The body of Router.send(data).
SendBody(data) ==
    /\ futures' = futures \cup {RouterId(next_id)}
    /\ future_state' = [future_state EXCEPT ![RouterId(next_id)] = "pending"]
    /\ item_queue' = put_nowait(item_queue,
                                RequestItem(next_seq, RouterId(next_id), data))
    /\ congestion_warnings' =
           check_for_congestion(item_queue', congestion_warnings)
    /\ next_id' = next_id + 1
    /\ next_seq' = next_seq + 1
    /\ wire' = wire

\* Router.send(data), called by Server.request, Client.request or the user.
send ==
    /\ events < MaxEvents
    /\ events' = events + 1
    /\ SendBody("REQUEST")
    /\ UNCHANGED <<mode, pipe, is_open, receive_handler,
                   receive_from_queue_task, receive_from_ws_task, block_future,
                   connection_future, attempted_connection_count,
                   identify_wait, handlers, replied, raised, last_error,
                   last_frame, frames, request_result, connections, routers,
                   rejecting, calls, fanout, server_events, self_routes,
                   deferred_routes, route_call, abandoned_receive>>

\* The caller of send() cancels the future it was handed (future.cancel(), or
\* asyncio.wait_for(future, timeout) running out).
cancel ==
    /\ events < MaxEvents
    /\ events' = events + 1
    /\ \E i \in RouterIds :
           /\ future_state[i] = "pending"
           /\ future_state' = [future_state EXCEPT ![i] = "cancelled"]
    /\ UNCHANGED <<mode, pipe, is_open, receive_handler, futures, next_id,
                   item_queue, receive_from_queue_task, receive_from_ws_task,
                   block_future, connection_future, attempted_connection_count,
                   identify_wait, handlers, replied, raised, wire, next_seq,
                   last_error, last_frame, frames, request_result, connections,
                   routers, rejecting, calls, fanout, server_events,
                   self_routes, deferred_routes, route_call,
                   congestion_warnings, abandoned_receive>>

\* Router.close()
close ==
    /\ events < MaxEvents
    /\ events' = events + 1
    /\ item_queue' = put_nowait(item_queue, CloseItem)
    /\ congestion_warnings' =
           check_for_congestion(item_queue', congestion_warnings)
    /\ UNCHANGED <<mode, pipe, is_open, receive_handler, futures, future_state,
                   next_id, receive_from_queue_task, receive_from_ws_task,
                   block_future, connection_future, attempted_connection_count,
                   identify_wait, handlers, replied, raised, wire, next_seq,
                   last_error, last_frame, frames, request_result, connections,
                   routers, rejecting, calls, fanout, server_events,
                   self_routes, deferred_routes, route_call,
                   abandoned_receive>>

\* ------------------------------------------------- starting the Router

\* Router.connect_server: the pipe loop runs on the transport the host accepted.
connect_server ==
    /\ pipe = "init"
    /\ mode' = "server"
    /\ pipe' = "running"
    /\ receive_from_ws_task' = ensure_tasks_exist(receive_from_ws_task)
    /\ receive_from_queue_task' = ensure_tasks_exist(receive_from_queue_task)
    /\ UNCHANGED <<is_open, receive_handler, futures, future_state, next_id,
                   item_queue, block_future, connection_future,
                   attempted_connection_count, identify_wait, handlers,
                   replied, raised, wire, next_seq, last_error, last_frame,
                   events, frames, request_result, connections, routers,
                   rejecting, calls, fanout, server_events, self_routes,
                   deferred_routes, route_call, congestion_warnings,
                   abandoned_receive>>

\* Router.connect_client up to its await: _handle_ws is started as a task.
connect_client ==
    /\ pipe = "init"
    /\ mode' = "client"
    /\ pipe' = "connecting"
    /\ connection_future' = "pending"
    /\ UNCHANGED <<is_open, receive_handler, futures, future_state, next_id,
                   item_queue, receive_from_queue_task, receive_from_ws_task,
                   block_future, attempted_connection_count, identify_wait,
                   handlers, replied, raised, wire, next_seq, last_error,
                   last_frame, events, frames, request_result, connections,
                   routers, rejecting, calls, fanout, server_events,
                   self_routes, deferred_routes, route_call,
                   congestion_warnings, abandoned_receive>>

\* Router._handle_ws: one iteration of "async for websocket in connect(url)"
\* up to the first wait of _handle_pipe.  The identify task is created before
\* the tasks of the pipe loop and so runs before them: it is at "await
\* future", its IDENTIFY request queued, when the pipe loop first wakes up.
handle_ws ==
    /\ pipe = "connecting"
    /\ pipe' = "running"
    /\ identify_wait' = identify_wait \cup {RouterId(next_id)}
    /\ SendBody("IDENTIFY")
    /\ receive_from_ws_task' = ensure_tasks_exist(receive_from_ws_task)
    /\ receive_from_queue_task' = ensure_tasks_exist(receive_from_queue_task)
    /\ UNCHANGED <<mode, is_open, receive_handler, block_future,
                   connection_future, attempted_connection_count, handlers,
                   replied, raised, last_error, last_frame, events, frames,
                   request_result, connections, routers, rejecting, calls,
                   fanout, server_events, self_routes, deferred_routes,
                   route_call, abandoned_receive>>

\* _handle_client_identify without its "await future".
handle_client_identify_no_await ==
    \E i \in identify_wait :
        /\ identify_wait' = identify_wait \ {i}
        /\ connection_future' = "done"
        /\ UNCHANGED <<mode, pipe, is_open, receive_handler, futures,
                       future_state, next_id, item_queue,
                       receive_from_queue_task, receive_from_ws_task,
                       block_future, attempted_connection_count, handlers,
                       replied, raised, wire, next_seq, last_error, last_frame,
                       events, frames, request_result, connections, routers,
                       rejecting, calls, fanout, server_events, self_routes,
                       deferred_routes, route_call, congestion_warnings,
                       abandoned_receive>>

\* Router._handle_client_identify after "await future": set_result on the
\* connection future (on a future already done it raises inside the task).
handle_client_identify ==
    \E i \in identify_wait :
        /\ future_state[i] \notin {"none", "pending"}
        /\ identify_wait' = identify_wait \ {i}
        /\ connection_future' = "done"
        /\ UNCHANGED <<mode, pipe, is_open, receive_handler, futures,
                       future_state, next_id, item_queue,
                       receive_from_queue_task, receive_from_ws_task,
                       block_future, attempted_connection_count, handlers,
                       replied, raised, wire, next_seq, last_error, last_frame,
                       events, frames, request_result, connections, routers,
                       rejecting, calls, fanout, server_events, self_routes,
                       deferred_routes, route_call, congestion_warnings,
                       abandoned_receive>>

\* ------------------------------------------------- the transport

\* The ids of the requests written to the wire: the only ids the peer knows.
WrittenRequestIds ==
    {wire[k].packet.packet_id :
        k \in {j \in 1..Len(wire) : wire[j].packet.type = "request"}}

ResponseFrames ==
    {[json |-> TRUE, type |-> "response", packet_id |-> i, data |-> d] :
        i \in WrittenRequestIds \cup {UnknownId}, d \in ResponseData}

RequestFrames ==
    {[json |-> TRUE, type |-> "request", packet_id |-> PeerId(frames + 1),
      data |-> r] : r \in RouteNames}

\* A frame that is no JSON text, and frames with one required key missing.
GarbageFrame ==
    [json |-> FALSE, type |-> Absent, packet_id |-> AbsentId, data |-> Absent]

DefectiveFrames ==
    {[f EXCEPT !.type = Absent] : f \in ResponseFrames}
    \cup {[f EXCEPT !.data = Absent] : f \in ResponseFrames \cup RequestFrames}
    \cup {[f EXCEPT !.packet_id = AbsentId] : f \in ResponseFrames}

InboundFrames ==
    ResponseFrames \cup RequestFrames \cup DefectiveFrames \cup {GarbageFrame}

\* WebsocketProtocol.receive() returns a frame of the peer, one of F: the
\* receive task is done.
ws_receive_from(F) ==
    /\ receive_from_ws_task.st = "pending"
    /\ events < MaxEvents
    /\ events' = events + 1
    /\ frames' = frames + 1
    /\ \E f \in F : receive_from_ws_task' = DoneTask(f)
    /\ UNCHANGED <<mode, pipe, is_open, receive_handler, futures, future_state,
                   next_id, item_queue, receive_from_queue_task, block_future,
                   connection_future, attempted_connection_count,
                   identify_wait, handlers, replied, raised, wire, next_seq,
                   last_error, last_frame, request_result, connections,
                   routers, rejecting, calls, fanout, server_events,
                   self_routes, deferred_routes, route_call,
                   congestion_warnings, abandoned_receive>>

ws_receive == ws_receive_from(InboundFrames)

\* WebsocketProtocol.receive() raises (the connection is lost): the receive
\* task is done with an exception.
ws_receive_fails ==
    /\ receive_from_ws_task.st = "pending"
    /\ events < MaxEvents
    /\ events' = events + 1
    /\ receive_from_ws_task' = FailedTask
    /\ UNCHANGED <<mode, pipe, is_open, receive_handler, futures, future_state,
                   next_id, item_queue, receive_from_queue_task, block_future,
                   connection_future, attempted_connection_count,
                   identify_wait, handlers, replied, raised, wire, next_seq,
                   last_error, last_frame, frames, request_result, connections,
                   routers, rejecting, calls, fanout, server_events,
                   self_routes, deferred_routes, route_call,
                   congestion_warnings, abandoned_receive>>

\* The receive task the CLOSE branch dropped from its field is still awaiting
\* WebsocketProtocol.receive(): the next frame of the peer goes to it.
abandoned_receive_returns ==
    /\ abandoned_receive = "pending"
    /\ events < MaxEvents
    /\ events' = events + 1
    /\ frames' = frames + 1
    /\ abandoned_receive' = "done"
    /\ UNCHANGED <<mode, pipe, is_open, receive_handler, futures, future_state,
                   next_id, item_queue, receive_from_queue_task,
                   receive_from_ws_task, block_future, connection_future,
                   attempted_connection_count, identify_wait, handlers,
                   replied, raised, wire, next_seq, last_error, last_frame,
                   request_result, connections, routers, rejecting, calls,
                   fanout, server_events, self_routes, deferred_routes,
                   route_call, congestion_warnings>>

\* The task of self._item_queue.get() takes the head of the queue.
queue_task ==
    /\ receive_from_queue_task.st = "pending"
    /\ item_queue # <<>>
    /\ receive_from_queue_task' = DoneTask(queue_get(item_queue).item)
    /\ item_queue' = queue_get(item_queue).rest
    /\ UNCHANGED <<mode, pipe, is_open, receive_handler, futures, future_state,
                   next_id, receive_from_ws_task, block_future,
                   connection_future, attempted_connection_count,
                   identify_wait, handlers, replied, raised, wire, next_seq,
                   last_error, last_frame, events, frames, request_result,
                   connections, routers, rejecting, calls, fanout,
                   server_events, self_routes, deferred_routes, route_call,
                   congestion_warnings, abandoned_receive>>

\* ------------------------------------------------- the pipe loop

\* An exception leaves the while loop of _handle_pipe: it is logged and
\* _handle_pipe returns None.  Under connect_server that ends the task; under
\* connect_client _handle_ws counts the attempt and either gives up, resolving
\* the block future, or asks connect() for the next connection, which closes
\* the old one (a receive still pending on it fails).  ws is the receive task
\* field as the loop left it.
Crash(err, ws) ==
    /\ last_error' = err
    /\ IF mode = "server"
       THEN /\ pipe' = "crashed"
            /\ receive_from_ws_task' = ws
            /\ UNCHANGED <<attempted_connection_count, block_future>>
       ELSE /\ attempted_connection_count' = attempted_connection_count + 1
            /\ receive_from_ws_task' =
                   IF ws.st = "pending" THEN FailedTask ELSE ws
            /\ IF retry_on_exception
                  /\ max_retries < attempted_connection_count + 1
               THEN pipe' = "exhausted" /\ block_future' = TRUE
               ELSE pipe' = "connecting" /\ UNCHANGED block_future

\* The pipe loop is suspended in asyncio.wait and the wait returns.
PipeWakes ==
    /\ pipe = "running"
    /\ wait_returns(receive_from_ws_task, receive_from_queue_task, handlers)

\* done.pop().result() raises: the receive task failed.
pipe_ws_failed ==
    /\ PipeWakes
    /\ receive_from_ws_task.st = "failed"
    /\ Crash("ReceiveError", receive_from_ws_task)
    /\ UNCHANGED <<mode, is_open, receive_handler, futures, future_state,
                   next_id, item_queue, receive_from_queue_task,
                   connection_future, identify_wait, handlers, replied, raised,
                   wire, next_seq, last_frame, events, frames, request_result,
                   connections, routers, rejecting, calls, fanout,
                   server_events, self_routes, deferred_routes, route_call,
                   congestion_warnings, abandoned_receive>>

\* The result is a frame: _resolve_future, then back to the top of the loop,
\* where _ensure_tasks_exist looks at both task fields.
pipe_ws_message ==
    /\ PipeWakes
    /\ receive_from_ws_task.st = "done"
    /\ last_frame' = receive_from_ws_task.val[1]
    /\ LET r == resolve_future(receive_from_ws_task.val[1], futures,
                               future_state, receive_handler)
       IN IF r.err # "none"
          THEN /\ Crash(r.err, NoTask)
               /\ UNCHANGED receive_from_queue_task
               /\ futures' = r.futures
               /\ future_state' = r.future_state
               /\ UNCHANGED handlers
          ELSE /\ futures' = r.futures
               /\ future_state' = r.future_state
               /\ handlers' = handlers \cup r.spawn
               /\ receive_from_ws_task' = ensure_tasks_exist(NoTask)
               /\ receive_from_queue_task' =
                      ensure_tasks_exist(receive_from_queue_task)
               /\ UNCHANGED <<pipe, last_error, attempted_connection_count,
                              block_future>>
    /\ UNCHANGED <<mode, is_open, receive_handler, next_id, item_queue,
                   connection_future, identify_wait, replied, raised, wire,
                   next_seq, events, frames, request_result, connections,
                   routers, rejecting, calls, fanout, server_events,
                   self_routes, deferred_routes, route_call,
                   congestion_warnings, abandoned_receive>>

\* A CLOSE branch that clears __is_open and goes on with the loop.
pipe_queue_close_keeps_running ==
    /\ PipeWakes
    /\ receive_from_queue_task.st = "done"
    /\ receive_from_queue_task.val[1].tag = EXIT_LITERAL
    /\ receive_from_queue_task' = ensure_tasks_exist(NoTask)
    /\ receive_from_ws_task' = ensure_tasks_exist(receive_from_ws_task)
    /\ is_open' = FALSE
    /\ UNCHANGED <<mode, pipe, receive_handler, futures, future_state, next_id,
                   item_queue, block_future, connection_future,
                   attempted_connection_count, identify_wait, handlers,
                   replied, raised, wire, next_seq, last_error, last_frame,
                   events, frames, request_result, connections, routers,
                   rejecting, calls, fanout, server_events, self_routes,
                   deferred_routes, route_call, congestion_warnings,
                   abandoned_receive>>

\* The result is the CLOSE tuple: the receive task's field is set to None (a
\* task still pending goes on awaiting receive()), the loop returns
\* _EXIT_LITERAL; under connect_client _handle_ws breaks, counts the attempt
\* and resolves the block future.
pipe_queue_close ==
    /\ PipeWakes
    /\ receive_from_queue_task.st = "done"
    /\ receive_from_queue_task.val[1].tag = EXIT_LITERAL
    /\ receive_from_queue_task' = NoTask
    /\ receive_from_ws_task' = NoTask
    /\ abandoned_receive' =
           IF receive_from_ws_task.st = "pending" THEN "pending"
           ELSE abandoned_receive
    /\ is_open' = FALSE
    /\ pipe' = "closed"
    /\ IF mode = "client"
       THEN /\ attempted_connection_count' = attempted_connection_count + 1
            /\ block_future' = TRUE
       ELSE UNCHANGED <<attempted_connection_count, block_future>>
    /\ UNCHANGED <<mode, receive_handler, futures, future_state, next_id,
                   item_queue, connection_future, identify_wait, handlers,
                   replied, raised, wire, next_seq, last_error, last_frame,
                   events, frames, request_result, connections, routers,
                   rejecting, calls, fanout, server_events, self_routes,
                   deferred_routes, route_call, congestion_warnings>>

\* The result is an envelope: _dispatch_future writes it to the transport.
pipe_queue_send ==
    /\ PipeWakes
    /\ receive_from_queue_task.st = "done"
    /\ receive_from_queue_task.val[1].tag # EXIT_LITERAL
    /\ wire' = Append(wire, receive_from_queue_task.val[1])
    /\ receive_from_queue_task' = ensure_tasks_exist(NoTask)
    /\ receive_from_ws_task' = ensure_tasks_exist(receive_from_ws_task)
    /\ UNCHANGED <<mode, pipe, is_open, receive_handler, futures, future_state,
                   next_id, item_queue, block_future, connection_future,
                   attempted_connection_count, identify_wait, handlers,
                   replied, raised, next_seq, last_error, last_frame, events,
                   frames, request_result, connections, routers, rejecting,
                   calls, fanout, server_events, self_routes, deferred_routes,
                   route_call, congestion_warnings, abandoned_receive>>

\* The result is an envelope and WebsocketProtocol.send() raises.
pipe_queue_send_fails ==
    /\ PipeWakes
    /\ receive_from_queue_task.st = "done"
    /\ receive_from_queue_task.val[1].tag # EXIT_LITERAL
    /\ events < MaxEvents
    /\ events' = events + 1
    /\ receive_from_queue_task' = NoTask
    /\ Crash("SendError", receive_from_ws_task)
    /\ UNCHANGED <<mode, is_open, receive_handler, futures, future_state,
                   next_id, item_queue, connection_future, identify_wait,
                   handlers, replied, raised, wire, next_seq, last_frame,
                   frames, request_result, connections, routers, rejecting,
                   calls, fanout, server_events, self_routes, deferred_routes,
                   route_call, congestion_warnings, abandoned_receive>>

\* One iteration of the while loop of Router._handle_pipe, from the return of
\* asyncio.wait to the next wait: done.pop() takes either task when both are
\* done.
handle_pipe ==
    \/ pipe_ws_failed
    \/ pipe_ws_message
    \/ pipe_queue_close
    \/ pipe_queue_send
    \/ pipe_queue_send_fails

\* ------------------------------------------------- the receive handler

\* A send_response that writes the envelope to the transport itself.
send_response_writes(packet_id, data) ==
    /\ wire' = Append(wire, ResponseItem(next_seq, packet_id, data))
    /\ UNCHANGED <<item_queue, congestion_warnings>>
    /\ next_seq' = next_seq + 1
    /\ replied' = replied \cup {packet_id}

\* Router.send_response(packet_id, data), as the reply function bound to an
\* inbound request calls it: the envelope is queued, the transport not
\* touched.
send_response(packet_id, data) ==
    /\ item_queue' = put_nowait(item_queue,
                                ResponseItem(next_seq, packet_id, data))
    /\ congestion_warnings' =
           check_for_congestion(item_queue', congestion_warnings)
    /\ next_seq' = next_seq + 1
    /\ replied' = replied \cup {packet_id}
    /\ wire' = wire

\* Client._request_handler / Server._request_handler, run as a task of its
\* own for one inbound request: an unknown route is answered with a
\* FAILURE_RESPONSE, a route that returns with a SUCCESS_RESPONSE; an
\* exception of the route leaves the task.
request_handler ==
    \E h \in handlers :
        /\ handlers' = handlers \ {h}
        /\ IF h.route \notin routes
           THEN send_response(h.packet_id, "FAILURE_RESPONSE")
                /\ UNCHANGED raised
           ELSE IF h.route \in RaisingRoutes
           THEN /\ raised' = raised \cup {h.packet_id}
                /\ UNCHANGED <<item_queue, next_seq, replied,
                               congestion_warnings, wire>>
           ELSE send_response(h.packet_id, "SUCCESS_RESPONSE")
                /\ UNCHANGED raised
        /\ UNCHANGED <<mode, pipe, is_open, receive_handler, futures,
                       future_state, next_id, receive_from_queue_task,
                       receive_from_ws_task, block_future, connection_future,
                       attempted_connection_count, identify_wait, last_error,
                       last_frame, events, frames, request_result, connections,
                       routers, rejecting, calls, fanout, server_events,
                       self_routes, deferred_routes, route_call,
                       abandoned_receive>>

\* ------------------------------------------------- Client.request

\* What a peer puts in the data of a response as a JSON text instead of an
\* object: the text of an object with this type.
TextPayloads == {"TEXT_CLIENT_REQUEST_RESPONSE", "TEXT_SUCCESS_RESPONSE"}

\* json.loads(d)["type"] for a text payload.
json_loads_type(d) ==
    IF d = "TEXT_CLIENT_REQUEST_RESPONSE" THEN "CLIENT_REQUEST_RESPONSE"
    ELSE "SUCCESS_RESPONSE"

\* Responses to the written requests of Client.request whose data is a JSON
\* text.
TextReplyFrames ==
    {[json |-> TRUE, type |-> "response", packet_id |-> i, data |-> d] :
        i \in {j \in WrittenRequestIds : request_result[j] = "waiting"},
        d \in TextPayloads}

\* Client.request after "d = await request_future": json.loads(d) raises
\* TypeError on the object the Router hands over for a Packet; on a text it
\* decodes, and any type but CLIENT_REQUEST_RESPONSE raises ValueError.
client_request_result(d) ==
    IF d \in ResponseData THEN "TypeError"
    ELSE IF json_loads_type(d) # "CLIENT_REQUEST_RESPONSE" THEN "ValueError"
    ELSE "data"

\* Client.request(route) up to "await request_future".
client_request ==
    /\ events < MaxEvents
    /\ events' = events + 1
    /\ request_result' = [request_result EXCEPT ![RouterId(next_id)] = "waiting"]
    /\ SendBody("CLIENT_REQUEST")
    /\ UNCHANGED <<mode, pipe, is_open, receive_handler,
                   receive_from_queue_task, receive_from_ws_task, block_future,
                   connection_future, attempted_connection_count,
                   identify_wait, handlers, replied, raised, last_error,
                   last_frame, frames, connections, routers, rejecting, calls,
                   fanout, server_events, self_routes, deferred_routes,
                   route_call, abandoned_receive>>

\* Client.request from "await request_future" to its end.
client_request_returns ==
    \E i \in RouterIds :
        /\ request_result[i] = "waiting"
        /\ future_state[i] \notin {"none", "pending"}
        /\ request_result' =
               [request_result EXCEPT ![i] = client_request_result(future_state[i])]
        /\ UNCHANGED <<mode, pipe, is_open, receive_handler, futures,
                       future_state, next_id, item_queue,
                       receive_from_queue_task, receive_from_ws_task,
                       block_future, connection_future,
                       attempted_connection_count, identify_wait, handlers,
                       replied, raised, wire, next_seq, last_error, last_frame,
                       events, frames, connections, routers, rejecting, calls,
                       fanout, server_events, self_routes, deferred_routes,
                       route_call, congestion_warnings, abandoned_receive>>

\* ------------------------------------------------- specifications

\* The Router of a Server: started by connect_server (Server.parse_identify).
Next ==
    \/ connect_server
    \/ send
    \/ close
    \/ ws_receive
    \/ ws_receive_fails
    \/ abandoned_receive_returns
    \/ queue_task
    \/ handle_pipe
    \/ request_handler

Spec == Init /\ [][Next]_vars

\* The same Router with callers that give up on the futures send() returned.
CancelNext ==
    \/ Next
    \/ cancel

CancelSpec == Init /\ [][CancelNext]_vars

\* The Router of a Client: started by connect_client (Client.start), which
\* reconnects when the pipe loop ends with an exception.
ClientNext ==
    \/ connect_client
    \/ handle_ws
    \/ handle_client_identify
    \/ client_request
    \/ client_request_returns
    \/ close
    \/ ws_receive_from(ResponseFrames \cup TextReplyFrames)
    \/ ws_receive_fails
    \/ queue_task
    \/ handle_pipe

ClientSpec == Init /\ [][ClientNext]_vars

\* A Router with a receiver on a transport that does not fail, nobody closing
\* it.  The event loop runs every task that is ready; the tasks of the
\* receive handler may wait for their routes for ever.
SlowInit == Init /\ receive_handler

SlowNext ==
    \/ connect_server
    \/ send
    \/ ws_receive_from(ResponseFrames \cup RequestFrames)
    \/ queue_task
    \/ pipe_ws_message
    \/ pipe_queue_send
    \/ request_handler

SlowSpec ==
    /\ SlowInit
    /\ [][SlowNext]_vars
    /\ WF_vars(queue_task)
    /\ WF_vars(pipe_ws_message)
    /\ WF_vars(pipe_queue_send)

TypeOK ==
    /\ mode \in {"none", "client", "server"}
    /\ pipe \in {"init", "connecting", "running", "crashed", "closed",
                 "exhausted"}
    /\ is_open \in BOOLEAN
    /\ futures \subseteq RouterIds
    /\ next_id \in 1..(MaxEvents + max_retries + 2)
    /\ attempted_connection_count \in 0..(max_retries + 1)

\* ------------------------------------------------- the Server

\* Server._connections is a dict: its entries in insertion order, a deleted
\* entry leaving a hole.
Hole == [identifier |-> "", router |-> NoRouter]

Live(conns) == {k \in 1..Len(conns) : conns[k] # Hole}

ConnectedIds(conns) == {conns[k].identifier : k \in Live(conns)}

EntryOf(conns, identifier) ==
    CHOOSE k \in Live(conns) : conns[k].identifier = identifier

\* self._connections.get(identifier); NoRouter is None.
connections_get(conns, identifier) ==
    IF identifier \in ConnectedIds(conns)
    THEN conns[EntryOf(conns, identifier)].router
    ELSE NoRouter

\* self._connections[identifier] = router
connections_set(conns, identifier, router) ==
    IF identifier \in ConnectedIds(conns)
    THEN [conns EXCEPT ![EntryOf(conns, identifier)].router = router]
    ELSE Append(conns, [identifier |-> identifier, router |-> router])

\* self._connections.pop(identifier, None)
connections_pop(conns, identifier) ==
    IF identifier \in ConnectedIds(conns)
    THEN [conns EXCEPT ![EntryOf(conns, identifier)] = Hole]
    ELSE conns

\* The websocket the next call of parse_identify is given.
NextSocket == Cardinality({n \in Sockets : routers[n] # NoSocket}) + 1

\* The identifiers a call can name: those a connection has presented and the
\* first that none has.
Presented == {routers[n].identifier : n \in Sockets} \ {""}

Nameable ==
    {Identifiers[k] : k \in {j \in 1..Len(Identifiers) :
                                j <= Cardinality(Presented) + 1}}

\* Router.send on the Router of websocket n: a slot and a queued request.
router_send(rs, n, packet_id, data) ==
    [rs EXCEPT ![n].futures = @ \cup {packet_id},
               ![n].item_queue =
                   put_nowait(@, RequestItem(0, packet_id, data))]

\* Router.send_response on the Router of websocket n.
router_send_response(rs, n, packet_id, data) ==
    [rs EXCEPT ![n].item_queue =
                   put_nowait(@, ResponseItem(0, packet_id, data))]

\* A close() that queues nothing.
router_close_skips_put(rs, n) == rs

\* Router.close on the Router of websocket n.
router_close(rs, n) ==
    [rs EXCEPT ![n].item_queue = put_nowait(@, CloseItem)]

\* ------------------------------------------------- Server.parse_identify

\* The except clause of parse_identify: self._connections.pop(identifier, None)
identify_failed_keeps_entry(conns, identifier) == conns

identify_failed(conns, identifier) == connections_pop(conns, identifier)

\* parse_identify closes the websocket with this code and is suspended in
\* websocket.close(); it raises when that returns.
Reject(n, identifier, code) ==
    /\ routers' = [routers EXCEPT ![n].close_code = code,
                                  ![n].identifier = identifier]
    /\ rejecting' = rejecting \cup {[socket |-> n, identifier |-> identifier]}
    /\ UNCHANGED connections

\* Lines 225-234 of parse_identify, which run without a suspension: the
\* Router is built and started, the entry inserted and the acknowledgment
\* queued; raw_packet["packet_id"] raises KeyError if the key is missing, after
\* the insertion, and the except clause runs.
Admit(n, identifier, has_packet_id) ==
    LET started == [routers EXCEPT ![n].identifier = identifier,
                                   ![n].pipe = "running"]
        inserted == connections_set(connections, identifier, n)
    IN /\ UNCHANGED rejecting
       /\ IF has_packet_id
          THEN /\ connections' = inserted
               /\ routers' =
                      [router_send_response(started, n, IdentifyId(n),
                                            Payload("IDENTIFY", <<>>))
                           EXCEPT ![n].ack = IdentifyId(n)]
          ELSE /\ connections' = identify_failed(inserted, identifier)
               /\ routers' = started

\* The IDENTIFY packets the clients send; has_packet_id is whether the
\* envelope carries a packet_id.
IdentifyPackets ==
    [identifier : Nameable, type : {"IDENTIFY", "REQUEST"},
     secret_key : SecretKeys, override_key : OverrideKeys,
     has_packet_id : BOOLEAN]

\* Those of clients configured with the Server's secret key and no override
\* key.
PlainIdentifyPackets ==
    {p \in IdentifyPackets :
        /\ p.type = "IDENTIFY" /\ p.secret_key = secret_key
        /\ p.override_key = "none" /\ p.has_packet_id}

\* The environment does one more thing, if the run allows it.
ServerEvent(max) ==
    /\ server_events < max
    /\ server_events' = server_events + 1

\* Server.parse_identify(packet, websocket), for one of these packets, up to
\* its first suspension or, if there is none, to its end.
parse_identify_of(packets, max) ==
    /\ ServerEvent(max)
    /\ \E p \in packets :
        LET n == NextSocket
        IN IF p.type # "IDENTIFY" THEN Reject(n, p.identifier, 4101)
           ELSE IF p.secret_key # secret_key THEN Reject(n, p.identifier, 4100)
           ELSE IF p.identifier \in ConnectedIds(connections)
                   /\ (p.override_key = "none"
                          \/ p.override_key # override_key)
           THEN Reject(n, p.identifier, 4102)
           ELSE Admit(n, p.identifier, p.has_packet_id)
    /\ UNCHANGED <<mode, pipe, is_open, receive_handler, futures, future_state,
                   next_id, item_queue, receive_from_queue_task,
                   receive_from_ws_task, block_future, connection_future,
                   attempted_connection_count, identify_wait, handlers,
                   replied, raised, wire, next_seq, last_error, last_frame,
                   events, frames, request_result, calls, fanout, self_routes,
                   deferred_routes, route_call, congestion_warnings,
                   abandoned_receive>>

parse_identify == parse_identify_of(IdentifyPackets, MaxServerEvents)

\* websocket.close() has returned: parse_identify raises into its except
\* clause.
parse_identify_raises ==
    \E j \in rejecting :
        /\ rejecting' = rejecting \ {j}
        /\ connections' = identify_failed(connections, j.identifier)
        /\ UNCHANGED <<mode, pipe, is_open, receive_handler, futures,
                       future_state, next_id, item_queue,
                       receive_from_queue_task, receive_from_ws_task,
                       block_future, connection_future,
                       attempted_connection_count, identify_wait, handlers,
                       replied, raised, wire, next_seq, last_error, last_frame,
                       events, frames, request_result, routers, calls, fanout,
                       server_events, self_routes, deferred_routes, route_call,
                       congestion_warnings, abandoned_receive>>

\* ------------------------------------------------- Server.disconnect

\* Server.disconnect(identifier); with an identifier that is not in the table
\* pop raises KeyError and nothing has changed.
disconnect_within(max) ==
    /\ ServerEvent(max)
    /\ \E identifier \in ConnectedIds(connections) :
        /\ connections' = connections_pop(connections, identifier)
        /\ routers' = router_close(routers,
                                   connections_get(connections, identifier))
    /\ UNCHANGED <<mode, pipe, is_open, receive_handler, futures, future_state,
                   next_id, item_queue, receive_from_queue_task,
                   receive_from_ws_task, block_future, connection_future,
                   attempted_connection_count, identify_wait, handlers,
                   replied, raised, wire, next_seq, last_error, last_frame,
                   events, frames, request_result, rejecting, calls, fanout,
                   self_routes, deferred_routes, route_call,
                   congestion_warnings, abandoned_receive>>

disconnect == disconnect_within(MaxServerEvents)

\* ------------------------------------------------- Server.request

\* A lookup that falls back to the oldest connection.
connections_get_or_first(conns, identifier) ==
    IF identifier \in ConnectedIds(conns)
    THEN conns[EntryOf(conns, identifier)].router
    ELSE IF Live(conns) # {}
    THEN conns[CHOOSE k \in Live(conns) : \A j \in Live(conns) : k <= j].router
    ELSE NoRouter

\* The Router Server.request sends on.
request_conn(conns, identifier) == connections_get(conns, identifier)

Outcome(kind, data) == [kind |-> kind, data |-> data]

\* Server.request that returns packet["data"] whatever the type.
server_request_result_any_type(packet) == Outcome("returned", packet.data)

\* Server.request after "packet = await request_future".
server_request_result(packet) ==
    IF packet.type = "FAILURE_RESPONSE"
    THEN Outcome("RequestFailed", packet.data)
    ELSE Outcome("returned", packet.data)

\* Server.request(route, client_identifier=...) up to "await request_future",
\* for the routes that answer: a route that raises leaves the call waiting.
request ==
    /\ ServerEvent(MaxServerEvents)
    /\ \E identifier \in Nameable, route \in RouteNames \ RaisingRoutes :
        LET conn == request_conn(connections, identifier)
            packet_id == RequestId(Cardinality(calls) + 1)
            call == [client_identifier |-> identifier, route |-> route,
                     router |-> conn, packet_id |-> packet_id]
        IN IF conn = NoRouter
           THEN /\ calls' = calls \cup
                       {[call EXCEPT !.packet_id = AbsentId] @@
                            [result |-> Outcome("UnknownClient", <<>>)]}
                /\ UNCHANGED routers
           ELSE /\ calls' = calls \cup
                       {call @@ [result |-> Outcome("waiting", <<>>)]}
                /\ routers' = router_send(routers, conn, packet_id, route)
    /\ UNCHANGED <<mode, pipe, is_open, receive_handler, futures, future_state,
                   next_id, item_queue, receive_from_queue_task,
                   receive_from_ws_task, block_future, connection_future,
                   attempted_connection_count, identify_wait, handlers,
                   replied, raised, wire, next_seq, last_error, last_frame,
                   events, frames, request_result, connections, rejecting,
                   fanout, self_routes, deferred_routes, route_call,
                   congestion_warnings, abandoned_receive>>

\* The payload a completed future of Router n holds.
ResultOf(n, packet_id) ==
    (CHOOSE d \in routers[n].done : d.packet_id = packet_id).payload

IsDone(n, packet_id) == \E d \in routers[n].done : d.packet_id = packet_id

\* Server.request from "await request_future" to its end.
request_returns ==
    \E call \in calls :
        /\ call.result.kind = "waiting"
        /\ IsDone(call.router, call.packet_id)
        /\ calls' = (calls \ {call}) \cup
               {[call EXCEPT !.result =
                    server_request_result(ResultOf(call.router, call.packet_id))]}
        /\ UNCHANGED <<mode, pipe, is_open, receive_handler, futures,
                       future_state, next_id, item_queue,
                       receive_from_queue_task, receive_from_ws_task,
                       block_future, connection_future,
                       attempted_connection_count, identify_wait, handlers,
                       replied, raised, wire, next_seq, last_error, last_frame,
                       events, frames, request_result, connections, routers,
                       rejecting, fanout, server_events, self_routes,
                       deferred_routes, route_call, congestion_warnings,
                       abandoned_receive>>

\* ------------------------------------------------- the clients

\* What the route returns on the client with this identifier.
RouteReturn(identifier, route) == <<"from", identifier, route>>

\* Client._request_handler for a request of this route: the payload it hands
\* to resolution_handler, or none when the route raises.
NoReply == Payload("none", <<>>)

client_request_handler(identifier, route) ==
    IF route \notin routes
    THEN Payload("FAILURE_RESPONSE", <<route, "is not a valid route name.">>)
    ELSE IF route \in RaisingRoutes THEN NoReply
    ELSE Payload("SUCCESS_RESPONSE", RouteReturn(identifier, route))

\* What the client on websocket n writes back when it reads this envelope:
\* nothing for a response (it completes a future of the client's own) and for
\* a request whose route raises, else a response with the request's packet id
\* and the reply of its _request_handler.
client_answers(identifier, packet) ==
    IF packet.type = "response"
          \/ client_request_handler(identifier, packet.data) = NoReply
    THEN <<>>
    ELSE <<[type |-> "response", packet_id |-> packet.packet_id,
            data |-> client_request_handler(identifier, packet.data)]>>

\* ------------------------------------------------- the Routers of the Server

\* The pipe loop of Router n takes the next item of its queue: the CLOSE tuple
\* ends it, an envelope is written to the websocket.  What the client does
\* with the envelope shows at the Server only as the frame that comes back,
\* which is put on the websocket here.
router_dispatch ==
    \E n \in Sockets :
        /\ routers[n].pipe = "running"
        /\ routers[n].item_queue # <<>>
        /\ LET got == queue_get(routers[n].item_queue)
           IN routers' =
                IF got.item.tag = EXIT_LITERAL
                THEN [routers EXCEPT ![n].item_queue = got.rest,
                                     ![n].pipe = "closed"]
                ELSE [routers EXCEPT
                         ![n].item_queue = got.rest,
                         ![n].to_server =
                             @ \o client_answers(routers[n].identifier,
                                                 got.item.packet)]
        /\ UNCHANGED <<mode, pipe, is_open, receive_handler, futures,
                       future_state, next_id, item_queue,
                       receive_from_queue_task, receive_from_ws_task,
                       block_future, connection_future,
                       attempted_connection_count, identify_wait, handlers,
                       replied, raised, wire, next_seq, last_error, last_frame,
                       events, frames, request_result, connections, rejecting,
                       calls, fanout, server_events, self_routes,
                       deferred_routes, route_call, congestion_warnings,
                       abandoned_receive>>

\* The pipe loop of Router n takes a frame of its client: a response pops its
\* slot and completes the future; one with no slot raises UnknownPacket out of
\* the loop.
router_receive ==
    \E n \in Sockets :
        /\ routers[n].pipe = "running"
        /\ routers[n].to_server # <<>>
        /\ LET packet == Head(routers[n].to_server)
           IN routers' =
                IF packet.packet_id \in routers[n].futures
                THEN [routers EXCEPT
                         ![n].to_server = Tail(@),
                         ![n].futures = @ \ {packet.packet_id},
                         ![n].done = @ \cup {[packet_id |-> packet.packet_id,
                                              payload |-> packet.data]}]
                ELSE [routers EXCEPT ![n].to_server = Tail(@),
                                     ![n].pipe = "crashed"]
        /\ UNCHANGED <<mode, pipe, is_open, receive_handler, futures,
                       future_state, next_id, item_queue,
                       receive_from_queue_task, receive_from_ws_task,
                       block_future, connection_future,
                       attempted_connection_count, identify_wait, handlers,
                       replied, raised, wire, next_seq, last_error, last_frame,
                       events, frames, request_result, connections, rejecting,
                       calls, fanout, server_events, self_routes,
                       deferred_routes, route_call, congestion_warnings,
                       abandoned_receive>>

\* The websocket of Router n is lost: receive() raises in the pipe loop, which
\* logs it and ends.
connection_lost_within(max) ==
    /\ ServerEvent(max)
    /\ \E n \in Sockets :
        /\ routers[n].pipe = "running"
        /\ routers' = [routers EXCEPT ![n].pipe = "crashed"]
    /\ UNCHANGED <<mode, pipe, is_open, receive_handler, futures, future_state,
                   next_id, item_queue, receive_from_queue_task,
                   receive_from_ws_task, block_future, connection_future,
                   attempted_connection_count, identify_wait, handlers,
                   replied, raised, wire, next_seq, last_error, last_frame,
                   events, frames, request_result, connections, rejecting,
                   calls, fanout, self_routes, deferred_routes, route_call,
                   congestion_warnings, abandoned_receive>>

connection_lost == connection_lost_within(MaxServerEvents)

\* ------------------------------------------------- Server.request_all

\* results[i] = value
results_set(results, identifier, value) ==
    {r \in results : r.identifier # identifier}
        \cup {[identifier |-> identifier, value |-> value]}

\* The value request_all records for a reply.
request_all_value(packet) ==
    IF packet.type = "FAILURE_RESPONSE"
    THEN Outcome("RequestFailed", packet.data)
    ELSE Outcome("returned", packet.data)

\* "for i, conn in self._connections.items()" asks the iterator for the next
\* entry and the body runs to "await request_future".  The iterator raises
\* RuntimeError when the dict has changed size, skips holes, stops at the end
\* of the entries and raises RuntimeError when it finds an entry after having
\* given as many as the dict had.  f is the state of the call; the result is
\* its next state and the Routers'.
request_all_next(f, conns, rs) ==
    LET rest == {k \in Live(conns) : k >= f.pos}
        k == CHOOSE k \in rest : \A j \in rest : k <= j
    IN IF f.di_used # Cardinality(Live(conns))
       THEN [fanout |-> [f EXCEPT !.pc = "raised"], routers |-> rs]
       ELSE IF rest = {}
       THEN [fanout |-> [f EXCEPT !.pc = "returned"], routers |-> rs]
       ELSE IF f.len = 0
       THEN [fanout |-> [f EXCEPT !.pc = "raised"], routers |-> rs]
       ELSE [fanout |-> [f EXCEPT !.pc = "await", !.pos = k + 1,
                                  !.len = @ - 1,
                                  !.identifier = conns[k].identifier,
                                  !.router = conns[k].router,
                                  !.packet_id = FanoutId(k)],
             routers |-> router_send(rs, conns[k].router, FanoutId(k),
                                     f.route)]

\* Server.request_all(route) up to its first suspension.
request_all ==
    /\ ServerEvent(MaxFanoutEvents)
    /\ fanout.pc = "idle"
    /\ \E route \in RouteNames \ RaisingRoutes :
        LET f == [NoFanout EXCEPT
                     !.route = route,
                     !.di_used = Cardinality(Live(connections)),
                     !.len = Cardinality(Live(connections)),
                     !.at_call = ConnectedIds(connections)]
            next == request_all_next(f, connections, routers)
        IN /\ fanout' = next.fanout
           /\ routers' = next.routers
    /\ UNCHANGED <<mode, pipe, is_open, receive_handler, futures, future_state,
                   next_id, item_queue, receive_from_queue_task,
                   receive_from_ws_task, block_future, connection_future,
                   attempted_connection_count, identify_wait, handlers,
                   replied, raised, wire, next_seq, last_error, last_frame,
                   events, frames, request_result, connections, rejecting,
                   calls, self_routes, deferred_routes, route_call,
                   congestion_warnings, abandoned_receive>>

\* request_all from "await request_future" to its next suspension or its end.
request_all_resumes ==
    /\ fanout.pc = "await"
    /\ IsDone(fanout.router, fanout.packet_id)
    /\ LET value == request_all_value(ResultOf(fanout.router, fanout.packet_id))
           f == [fanout EXCEPT
                    !.results = results_set(@, fanout.identifier, value)]
           next == request_all_next(f, connections, routers)
       IN /\ fanout' = next.fanout
          /\ routers' = next.routers
    /\ UNCHANGED <<mode, pipe, is_open, receive_handler, futures, future_state,
                   next_id, item_queue, receive_from_queue_task,
                   receive_from_ws_task, block_future, connection_future,
                   attempted_connection_count, identify_wait, handlers,
                   replied, raised, wire, next_seq, last_error, last_frame,
                   events, frames, request_result, connections, rejecting,
                   calls, server_events, self_routes, deferred_routes,
                   route_call, congestion_warnings, abandoned_receive>>

\* ------------------------------------------------- the Server's specifications

\* A Server whose host admits connections, calls request and disconnect.
ServerNext ==
    \/ parse_identify
    \/ parse_identify_raises
    \/ disconnect
    \/ request
    \/ request_returns
    \/ router_dispatch
    \/ router_receive
    \/ connection_lost

ServerSpec == Init /\ [][ServerNext]_vars

\* The event loop runs a pipe loop whose queue task has an item to hand over.
ServerFairSpec == ServerSpec /\ WF_vars(router_dispatch)

\* A Server whose host admits clients, calls request_all once and disconnect.
FanoutNext ==
    \/ parse_identify_of(PlainIdentifyPackets, MaxFanoutEvents)
    \/ parse_identify_raises
    \/ disconnect_within(MaxFanoutEvents)
    \/ request_all
    \/ request_all_resumes
    \/ router_dispatch
    \/ router_receive
    \/ connection_lost_within(MaxFanoutEvents)

FanoutSpec == Init /\ [][FanoutNext]_vars

\* ------------------------------------------------- the route registry

\* The keys of the dict deferred_routes.
DeferredNames(d) == {d[k].name : k \in 1..Len(d)}

\* A call of the registry and the exception it raised ("none": it returned).
RouteCall(op, name, func, exc) ==
    [op |-> op, name |-> name, func |-> func, raised |-> exc]

\* What a registration leaves: the exception raised and the table.
Registered(exc, rt) == [raised |-> exc, routes |-> rt]

\* The decorator of the module-level route(route_name), applied to func.
deferred_route_decorator(d, name, func) ==
    IF name \in DeferredNames(d)
    THEN [raised |-> "DuplicateRoute", deferred |-> d]
    ELSE [raised |-> "none",
          deferred |-> Append(d, [name |-> name, func |-> func])]

\* The decorator of RouteHandler.route(route_name), applied to func.
route_decorator(rt, name, func) ==
    IF rt[name] # NoCallback THEN Registered("DuplicateRoute", rt)
    ELSE Registered("none", [rt EXCEPT ![name] = func])

\* An add_route that assigns without looking the name up.
add_route_overwrites(rt, route_name, callback) ==
    Registered("none", [rt EXCEPT ![route_name] = callback])

\* RouteHandler.add_route(route_name=..., callback=...) on the table rt.
add_route_to(rt, route_name, callback) ==
    IF rt[route_name] # NoCallback THEN Registered("DuplicateRoute", rt)
    ELSE Registered("none", [rt EXCEPT ![route_name] = callback])

\* RouteHandler.remove_route(route_name) on the table rt.
remove_route_from(rt, route_name) == [rt EXCEPT ![route_name] = NoCallback]

\* The for loop of RouteHandler.load_routes over the items d still to come.
RECURSIVE load_routes_loop(_, _)
load_routes_loop(rt, d) ==
    IF d = <<>> THEN Registered("none", rt)
    ELSE IF rt[Head(d).name] # NoCallback THEN Registered("DuplicateRoute", rt)
    ELSE load_routes_loop([rt EXCEPT ![Head(d).name] = Head(d).func], Tail(d))

\* @route(name) on a function of the module.
deferred_route ==
    \E name \in RouteNames, func \in Callbacks :
        LET r == deferred_route_decorator(deferred_routes, name, func)
        IN /\ deferred_routes' = r.deferred
           /\ route_call' = RouteCall("deferred_route", name, func, r.raised)
           /\ UNCHANGED <<mode, pipe, is_open, receive_handler, futures,
                          future_state, next_id, item_queue,
                          receive_from_queue_task, receive_from_ws_task,
                          block_future, connection_future,
                          attempted_connection_count, identify_wait, handlers,
                          replied, raised, wire, next_seq, last_error,
                          last_frame, events, frames, request_result,
                          connections, routers, rejecting, calls, fanout,
                          server_events, self_routes, congestion_warnings,
                          abandoned_receive>>

\* @handler.route(name) on a function.
handler_route ==
    \E name \in RouteNames, func \in Callbacks :
        LET r == route_decorator(self_routes, name, func)
        IN /\ self_routes' = r.routes
           /\ route_call' = RouteCall("route", name, func, r.raised)
           /\ UNCHANGED <<mode, pipe, is_open, receive_handler, futures,
                          future_state, next_id, item_queue,
                          receive_from_queue_task, receive_from_ws_task,
                          block_future, connection_future,
                          attempted_connection_count, identify_wait, handlers,
                          replied, raised, wire, next_seq, last_error,
                          last_frame, events, frames, request_result,
                          connections, routers, rejecting, calls, fanout,
                          server_events, deferred_routes, congestion_warnings,
                          abandoned_receive>>

\* handler.add_route(route_name=name, callback=func)
add_route ==
    \E name \in RouteNames, func \in Callbacks :
        LET r == add_route_to(self_routes, name, func)
        IN /\ self_routes' = r.routes
           /\ route_call' = RouteCall("add_route", name, func, r.raised)
           /\ UNCHANGED <<mode, pipe, is_open, receive_handler, futures,
                          future_state, next_id, item_queue,
                          receive_from_queue_task, receive_from_ws_task,
                          block_future, connection_future,
                          attempted_connection_count, identify_wait, handlers,
                          replied, raised, wire, next_seq, last_error,
                          last_frame, events, frames, request_result,
                          connections, routers, rejecting, calls, fanout,
                          server_events, deferred_routes, congestion_warnings,
                          abandoned_receive>>

\* handler.remove_route(name)
remove_route ==
    \E name \in RouteNames :
        /\ self_routes' = remove_route_from(self_routes, name)
        /\ route_call' = RouteCall("remove_route", name, NoCallback, "none")
        /\ UNCHANGED <<mode, pipe, is_open, receive_handler, futures,
                       future_state, next_id, item_queue,
                       receive_from_queue_task, receive_from_ws_task,
                       block_future, connection_future,
                       attempted_connection_count, identify_wait, handlers,
                       replied, raised, wire, next_seq, last_error, last_frame,
                       events, frames, request_result, connections, routers,
                       rejecting, calls, fanout, server_events,
                       deferred_routes, congestion_warnings,
                       abandoned_receive>>

\* handler.load_routes(): the global is emptied only if the loop ends.
load_routes ==
    LET r == load_routes_loop(self_routes, deferred_routes)
    IN /\ self_routes' = r.routes
       /\ deferred_routes' =
              IF r.raised = "none" THEN <<>> ELSE deferred_routes
       /\ route_call' = RouteCall("load_routes", "", NoCallback, r.raised)
       /\ UNCHANGED <<mode, pipe, is_open, receive_handler, futures,
                      future_state, next_id, item_queue,
                      receive_from_queue_task, receive_from_ws_task,
                      block_future, connection_future,
                      attempted_connection_count, identify_wait, handlers,
                      replied, raised, wire, next_seq, last_error, last_frame,
                      events, frames, request_result, connections, routers,
                      rejecting, calls, fanout, server_events,
                      congestion_warnings, abandoned_receive>>

\* One RouteHandler and the module's deferred routes, under any sequence of
\* registrations and removals.
RegistryNext ==
    \/ deferred_route
    \/ handler_route
    \/ add_route
    \/ remove_route
    \/ load_routes

RegistrySpec == Init /\ [][RegistryNext]_vars

\* ------------------------------------------------- a congested Router

\* Router.send_response called for one more inbound request while the pipe
\* loop is running.
burst_reply ==
    /\ pipe = "running"
    /\ next_seq <= MaxReplies
    /\ send_response(PeerId(next_seq), "SUCCESS_RESPONSE")
    /\ UNCHANGED <<mode, pipe, is_open, receive_handler, futures, future_state,
                   next_id, receive_from_queue_task, receive_from_ws_task,
                   block_future, connection_future, attempted_connection_count,
                   identify_wait, handlers, raised, last_error, last_frame,
                   events, frames, request_result, connections, routers,
                   rejecting, calls, fanout, server_events, self_routes,
                   deferred_routes, route_call, abandoned_receive>>

\* A Router started by connect_server whose handlers reply faster than the
\* pipe loop writes, on a transport that does not fail.
CongestionNext ==
    \/ connect_server
    \/ burst_reply
    \/ queue_task
    \/ pipe_queue_send

CongestionSpec == Init /\ [][CongestionNext]_vars

\* ------------------------------------------------- what the claims are about

\* The frame the receive task has returned and the pipe loop has not taken.
ReceivedFrame == receive_from_ws_task.val[1]

\* The step in which the pipe loop gives the received frame to
\* _resolve_future (closing drops the frame instead).
HandlesFrame ==
    /\ pipe = "running"
    /\ receive_from_ws_task.st = "done"
    /\ receive_from_ws_task' # receive_from_ws_task
    /\ is_open'

\* A decoded frame with all of packet_id, type and data.
WellFormed(f) ==
    f.json /\ f.type # Absent /\ f.data # Absent /\ f.packet_id # AbsentId

IsResponse(f) == WellFormed(f) /\ f.type = "response"

\* The envelopes of a queue, the CLOSE tuples left out.
Envelopes(q) == SelectSeq(q, LAMBDA item : item.tag # EXIT_LITERAL)

\* Every envelope enqueued and not lost: written, taken by the queue task or
\* still queued, in this order.
InFlight ==
    wire \o Envelopes(receive_from_queue_task.val) \o Envelopes(item_queue)

\* Something waits for the pipe loop: a received frame or an outbound item.
Outstanding ==
    \/ receive_from_ws_task.st = "done"
    \/ receive_from_queue_task.st = "done"
    \/ item_queue # <<>>

\* ------------------------------------------------- C1

\* C1: a slot leaves the map only when a response with its id is handled;
\* that response completes the pending future with the response's data and
\* removes the slot; a response whose id has no slot (a later response with
\* the same id) raises UnknownPacket and changes no future and no slot; a
\* completed future is never completed again.
C1_ResponseResolvesOnce ==
    [][/\ \A i \in RouterIds :
            future_state[i] \in ResponseData => future_state'[i] = future_state[i]
       /\ \A i \in futures \ futures' :
            HandlesFrame /\ IsResponse(ReceivedFrame)
                /\ ReceivedFrame.packet_id = i
       /\ (HandlesFrame /\ IsResponse(ReceivedFrame)) =>
            IF ReceivedFrame.packet_id \in futures
            THEN /\ future_state[ReceivedFrame.packet_id] = "pending"
                 /\ futures' = futures \ {ReceivedFrame.packet_id}
                 /\ future_state' =
                        [future_state EXCEPT ![ReceivedFrame.packet_id] =
                                                 ReceivedFrame.data]
            ELSE /\ last_error' = "UnknownPacket"
                 /\ futures' = futures
                 /\ future_state' = future_state]_vars

\* A second response with a completed request's id and other data was handled
\* and rejected; the future kept the data of the first.
C1_Witness ==
    \E i \in RouterIds :
        /\ future_state[i] \in ResponseData
        /\ i \notin futures
        /\ IsResponse(last_frame)
        /\ last_frame.packet_id = i
        /\ last_frame.data # future_state[i]
        /\ last_error = "UnknownPacket"

\* ------------------------------------------------- C2

\* C2: the envelopes written to the transport, followed by the envelope the
\* queue task holds and the envelopes still queued, are in the order of the
\* send and send_response calls that enqueued them.
C2_WireOrderIsCallOrder ==
    \A a, b \in 1..Len(InFlight) : a < b => InFlight[a].seq < InFlight[b].seq

\* A request, the reply to an inbound request and a second request were
\* written, the reply having been enqueued between the two send calls.
C2_Witness ==
    /\ Len(wire) >= 3
    /\ \E a, b, c \in 1..Len(wire) :
        /\ a < b /\ b < c
        /\ wire[a].tag = "SEND_THEN_RECEIVE_RESPONSE"
        /\ wire[b].tag = "SEND_RESPONSE"
        /\ wire[c].tag = "SEND_THEN_RECEIVE_RESPONSE"

\* ------------------------------------------------- C3

\* C3: once the pipe loop has taken a CLOSE tuple, the Router is closed and
\* the block future is resolved, however many times close() was called.
C3_CloseUnblocks ==
    pipe = "closed" => (~is_open /\ block_future)

\* ------------------------------------------------- C4

\* C4: the step in which the pipe loop shuts down leaves no future pending.
C4_ClosePendingCompleted ==
    [][(is_open /\ ~is_open') =>
           \A i \in RouterIds : future_state'[i] # "pending"]_vars

\* ------------------------------------------------- C5

\* C5: a closed Router stays closed, and no call enqueues an envelope or
\* creates a slot on it.
C5_ClosedRefusesSends ==
    [][~is_open =>
           (~is_open' /\ next_seq' = next_seq /\ futures' = futures)]_vars

\* ------------------------------------------------- C6

\* The step in which the pipe loop finds that the receive task has failed.
ReceiveFailureSeen ==
    /\ pipe = "running"
    /\ receive_from_ws_task.st = "failed"
    /\ pipe' \in {"crashed", "connecting", "exhausted"}
    /\ receive_from_queue_task' = receive_from_queue_task

\* C6: when the pipe loop finds the receive failed, it exits, no future is
\* left pending, and once its task has ended the block future is resolved.
C6_ReceiveFailureTerminal ==
    [][ReceiveFailureSeen =>
           /\ \A i \in RouterIds : future_state'[i] # "pending"
           /\ pipe' \in {"crashed", "exhausted"} => block_future']_vars

\* ------------------------------------------------- C7

\* C7: handling a response whose id has no slot leaves the pipe loop running.
C7_UnknownResponseNotFatal ==
    [][(HandlesFrame /\ IsResponse(ReceivedFrame)
            /\ ReceivedFrame.packet_id \notin futures) =>
           pipe' = "running"]_vars

\* ------------------------------------------------- C8

\* C8: handling a decoded frame that lacks packet_id, type or data raises
\* UnknownPacket, completes and removes no future and starts no receiver.
C8_MissingFieldRejected ==
    [][(HandlesFrame /\ ReceivedFrame.json /\ ~WellFormed(ReceivedFrame)) =>
           /\ last_error' = "UnknownPacket"
           /\ futures' = futures
           /\ future_state' = future_state
           /\ handlers' = handlers]_vars

\* A response without data for a pending request was handled and rejected:
\* the slot is still there and the future still pending.
C8_Witness ==
    /\ last_frame.json
    /\ last_frame.type = "response"
    /\ last_frame.data = Absent
    /\ last_frame.packet_id \in futures
    /\ future_state[last_frame.packet_id] = "pending"
    /\ last_error = "UnknownPacket"

\* ------------------------------------------------- C9

\* C9: every inbound request whose handler raised has been answered.
C9_HandlerExceptionAnswered == raised \subseteq replied

\* ------------------------------------------------- C10

\* C10: whatever waits for the pipe loop while a receiver task is running is
\* taken by the pipe loop (or the pipe loop has ended), also when that task
\* never returns.
C10_HandlersDoNotBlockPipe ==
    (pipe = "running" /\ handlers # {} /\ Outstanding)
        ~> (pipe # "running" \/ ~Outstanding)

\* A request sent while a receiver task was running was written and answered,
\* the receiver task still running.
C10_Witness ==
    \E h \in handlers : \E k \in 1..Len(wire) :
        /\ wire[k].tag = "SEND_THEN_RECEIVE_RESPONSE"
        /\ future_state[wire[k].packet.packet_id] \in ResponseData
        /\ pipe = "running"

\* ------------------------------------------------- C11

\* C11: every entry of the connection table names a Router, on a websocket
\* parse_identify did not close, on which the acknowledgment of that
\* websocket's IDENTIFY packet was queued; so a call that failed before the
\* acknowledgment has left no entry.
C11_EntryHasAcknowledgment ==
    \A k \in Live(connections) :
        LET n == connections[k].router
        IN /\ routers[n].identifier = connections[k].identifier
           /\ routers[n].close_code = 0
           /\ routers[n].pipe # "none"
           /\ routers[n].ack = IdentifyId(n)

\* A call that started its Router and failed for want of a packet_id has left
\* no entry, next to an entry of a call that succeeded.
C11_Witness ==
    /\ \E n \in Sockets :
           /\ routers[n].pipe = "running"
           /\ routers[n].ack = AbsentId
           /\ \A k \in Live(connections) : connections[k].router # n
    /\ Live(connections) # {}

\* ------------------------------------------------- C12

\* C12: when a call of parse_identify that closed its websocket with 4102
\* raises, the connection table is what it was.
C12_DuplicateKeepsOriginal ==
    [][\A j \in rejecting \ rejecting' :
           routers[j.socket].close_code = 4102 =>
               connections' = connections]_vars

\* ------------------------------------------------- C13

\* C13: when the entry of an identifier passes from one Router to another,
\* the first has been closed: its pipe loop has ended or the CLOSE tuple is
\* in its queue.
C13_OverrideClosesPrior ==
    [][\A i \in ConnectedIds(connections) \cap ConnectedIds(connections') :
           LET prior == connections_get(connections, i)
           IN connections_get(connections', i) # prior =>
                  \/ routers'[prior].pipe = "closed"
                  \/ \E q \in 1..Len(routers'[prior].item_queue) :
                         routers'[prior].item_queue[q].tag = EXIT_LITERAL]_vars

\* ------------------------------------------------- C14

\* C14: when request_all returns, the keys of its result are the identifiers
\* that were connected when it was called.
C14_FanoutKeysAreConnected ==
    fanout.pc = "returned" =>
        {r.identifier : r \in fanout.results} = fanout.at_call

\* ------------------------------------------------- C15

\* C15: request_all never waits for a future of a Router whose pipe loop has
\* ended with the future's slot still there.
C15_FanoutSurvivesLostClient ==
    (fanout.pc = "await"
        /\ routers[fanout.router].pipe \in {"closed", "crashed"}) =>
            fanout.packet_id \notin routers[fanout.router].futures

\* ------------------------------------------------- C16

\* C16: a call of Server.request that ends raises RequestFailed with a
\* message naming the route if the client has not registered it, and returns
\* what the route returned on that client if it has; the step changes no
\* Router.
C16_RequestResult ==
    [][\A call \in calls' \ calls :
           call.result.kind \notin {"waiting", "UnknownClient"} =>
               /\ call.result =
                      IF call.route \notin routes
                      THEN Outcome("RequestFailed",
                                   <<call.route, "is not a valid route name.">>)
                      ELSE Outcome("returned",
                                   RouteReturn(call.client_identifier,
                                               call.route))
               /\ routers' = routers]_vars

\* A request for an unregistered route has raised RequestFailed and a later
\* request on the same connection has returned the route's value.
C16_Witness ==
    \E failed, later \in calls :
        /\ failed.result.kind = "RequestFailed"
        /\ failed.route \notin routes
        /\ later.result.kind = "returned"
        /\ later.router = failed.router
        /\ later.packet_id[2] > failed.packet_id[2]

\* ------------------------------------------------- C17

\* C17: a call of Server.request naming an identifier that is not in the
\* connection table raises UnknownClient and changes no Router: no envelope
\* is queued and no slot created.
C17_UnknownClientNoEffect ==
    [][\A call \in calls' \ calls :
           (call.result.kind \in {"waiting", "UnknownClient"}
               /\ call.client_identifier \notin ConnectedIds(connections)) =>
                   /\ call.result.kind = "UnknownClient"
                   /\ routers' = routers]_vars

\* A request has raised UnknownClient while another client was connected.
C17_Witness ==
    /\ \E call \in calls :
           /\ call.result.kind = "UnknownClient"
           /\ call.client_identifier \notin ConnectedIds(connections)
    /\ ConnectedIds(connections) # {}

\* ------------------------------------------------- C18

\* C18: the step that resolves the connection future of connect_client is
\* taken by an identify task whose IDENTIFY request has been answered: its
\* future is completed and its slot gone.
C18_StartAfterIdentifyAnswered ==
    [][(connection_future # "done" /\ connection_future' = "done") =>
           \E i \in identify_wait \ identify_wait' :
               /\ future_state[i] \notin {"none", "pending"}
               /\ i \notin futures
               /\ \E k \in 1..Len(wire) :
                      /\ wire[k].packet.packet_id = i
                      /\ wire[k].packet.data = "IDENTIFY"]_vars

\* connect_client has returned on a Router that identified once.
C18_Witness ==
    /\ mode = "client"
    /\ connection_future = "done"
    /\ attempted_connection_count = 0

\* ------------------------------------------------- C19

\* What Client.request is to do with a reply payload of this type.
C19_Expected(d) ==
    IF d = "SUCCESS_RESPONSE" THEN "data"
    ELSE IF d = "FAILURE_RESPONSE" THEN "RequestFailed"
    ELSE "UnhandledWebsocketType"

\* C19: every Client.request that has ended returned the data of a
\* SUCCESS_RESPONSE reply, raised RequestFailed on a FAILURE_RESPONSE reply
\* and UnhandledWebsocketType on any other.
C19_ClientRequestResult ==
    \A i \in RouterIds :
        (request_result[i] \notin {"none", "waiting"}
            /\ future_state[i] \in ResponseData) =>
                request_result[i] = C19_Expected(future_state[i])

\* ------------------------------------------------- C20

\* C20: when _handle_ws has given up after the connections were closed under
\* it, connect_client is not left waiting for the connection future.
C20_RejectedStartReturns ==
    (mode = "client" /\ pipe = "exhausted") => connection_future # "pending"

\* ------------------------------------------------- C21

\* Connections _handle_ws has opened so far: the attempts it has counted and
\* the one the pipe loop is running on.
ConnectionsOpened ==
    attempted_connection_count + (IF pipe = "running" THEN 1 ELSE 0)

\* C21: the Router of a Client reconnects at most reconnect_attempt_count
\* times: it never holds more connections than the first one and that many
\* reconnections.
C21_ReconnectsWithinConfigured ==
    mode = "client" => ConnectionsOpened <= 1 + reconnect_attempt_count

\* ------------------------------------------------- C22

\* The CLOSE tuple is in the queue of Router n.
CloseQueued(n) ==
    \E k \in 1..Len(routers[n].item_queue) :
        routers[n].item_queue[k].tag = EXIT_LITERAL

\* C22: the step of disconnect(identifier), the one call of the host that
\* takes an identifier out of the table without a new websocket, leaves a
\* table in which the lookup of Server.request finds no Router for the
\* identifier (it raises UnknownClient) and has queued CLOSE on the Router the
\* entry held; a pipe loop with CLOSE in its queue ends.
C22_DisconnectRemovesAndCloses ==
    /\ [][\A i \in ConnectedIds(connections) \ ConnectedIds(connections') :
              (server_events' # server_events /\ NextSocket' = NextSocket) =>
                  /\ request_conn(connections', i) = NoRouter
                  /\ LET q == routers'[connections_get(connections, i)].item_queue
                     IN q # <<>> /\ q[Len(q)].tag = EXIT_LITERAL]_vars
    /\ \A n \in Sockets :
           (routers[n].pipe = "running" /\ CloseQueued(n))
               ~> (routers[n].pipe # "running")

\* A client was disconnected, its pipe loop has returned on the CLOSE tuple
\* and a request naming it has raised UnknownClient.
C22_Witness ==
    \E n \in Sockets :
        /\ routers[n].pipe = "closed"
        /\ routers[n].identifier \notin ConnectedIds(connections)
        /\ \E call \in calls :
               /\ call.client_identifier = routers[n].identifier
               /\ call.result.kind = "UnknownClient"

\* ------------------------------------------------- C23

\* C23: a registration (the route decorator, add_route, load_routes) under a
\* name that is registered raises DuplicateRoute, and no registration changes
\* the callback of a name that was registered; the module-level decorator
\* does the same on the deferred routes.
C23_DuplicateRouteRejected ==
    [][LET c == route_call'
       IN /\ (c.op \in {"route", "add_route", "load_routes"}) =>
                 \A k \in RouteNames :
                     (self_routes[k] # NoCallback) =>
                         self_routes'[k] = self_routes[k]
          /\ (c.op \in {"route", "add_route"}
                 /\ self_routes[c.name] # NoCallback) =>
                     c.raised = "DuplicateRoute"
          /\ (c.op = "load_routes"
                 /\ \E k \in DeferredNames(deferred_routes) :
                        self_routes[k] # NoCallback) =>
                     c.raised = "DuplicateRoute"
          /\ (c.op = "deferred_route"
                 /\ c.name \in DeferredNames(deferred_routes)) =>
                     /\ c.raised = "DuplicateRoute"
                     /\ deferred_routes' = deferred_routes]_vars

\* add_route was called with another callback under a registered name and
\* raised DuplicateRoute.
C23_Witness ==
    /\ route_call.op = "add_route"
    /\ route_call.raised = "DuplicateRoute"
    /\ self_routes[route_call.name] \notin {NoCallback, route_call.func}

\* ------------------------------------------------- C24

\* The received frame is one _resolve_future rejects for a reason other than
\* a response id without a slot: it does not decode, it lacks a field, or it
\* is a request and no receive handler is registered.
ProtocolError(f) ==
    \/ ~f.json
    \/ ~WellFormed(f)
    \/ (f.type # "response" /\ ~receive_handler)

\* C24: handling an undecodable frame, a frame with a missing field or a
\* request without a receive handler drops the frame and leaves the pipe loop
\* running, waiting for the next frame.
C24_ProtocolErrorNotFatal ==
    [][(HandlesFrame /\ ProtocolError(ReceivedFrame)) =>
           /\ pipe' = "running"
           /\ receive_from_ws_task' = PendingTask]_vars

\* ------------------------------------------------- C25

\* The step in which the pipe loop takes a request envelope from the queue
\* task and the write to the transport raises.
RequestWriteFails ==
    /\ pipe = "running"
    /\ receive_from_queue_task.st = "done"
    /\ receive_from_queue_task.val[1].tag = "SEND_THEN_RECEIVE_RESPONSE"
    /\ receive_from_queue_task' = NoTask
    /\ wire' = wire

\* C25: when the write of a request envelope fails, the pipe loop ends and no
\* future is left pending: the future of that request and every other pending
\* future have been failed.
C25_SendFailureFailsFutures ==
    [][RequestWriteFails =>
           /\ pipe' # "running"
           /\ \A i \in RouterIds : future_state'[i] # "pending"]_vars

\* ------------------------------------------------- C26

\* C26: when a call of parse_identify that closed its websocket with 4101 or
\* 4100 raises, no Router was made for the websocket and the connection table
\* is what it was.
C26_RejectedAdmissionNoEffect ==
    [][\A j \in rejecting \ rejecting' :
           routers[j.socket].close_code \in {4100, 4101} =>
               /\ routers'[j.socket].pipe = "none"
               /\ connections' = connections]_vars

\* ------------------------------------------------- C27

\* request_all has called send on the Router of websocket n.
FanoutSent(n) ==
    \E k \in Sockets :
        \/ FanoutId(k) \in routers[n].futures
        \/ IsDone(n, FanoutId(k))

\* C27: while request_all waits for a response, the request has been queued
\* on the Router of every client that was connected when it was called.
C27_FanoutSendsBeforeWaiting ==
    fanout.pc = "await" =>
        \A i \in fanout.at_call :
            \E n \in Sockets : routers[n].identifier = i /\ FanoutSent(n)

\* ------------------------------------------------- C28

\* C28: request_all does not fail when the connection table changes while it
\* is suspended, and the client it waits for is one of those it started with.
C28_FanoutIteratesSnapshot ==
    /\ fanout.pc # "raised"
    /\ fanout.pc = "await" => fanout.identifier \in fanout.at_call

\* ------------------------------------------------- C29

\* C29: a step that puts an item on the queue logs one congestion warning if
\* it takes the queue from at most congestion_limit items to more, and none
\* otherwise; no other step logs a warning.
C29_WarnsOncePerCrossing ==
    [][IF Len(item_queue') > Len(item_queue)
          /\ Len(item_queue) <= congestion_limit
          /\ Len(item_queue') > congestion_limit
       THEN congestion_warnings' = congestion_warnings + 1
       ELSE congestion_warnings' = congestion_warnings]_vars

\* ------------------------------------------------- C30

\* The items the pipe loop has still to write: the one the queue task holds
\* and those in the queue.
Unwritten == receive_from_queue_task.val \o item_queue

\* C30: every request envelope the pipe loop can take, the one the queue task
\* has handed over for writing included, has its slot in _futures, with the
\* future still pending.
C30_SlotBeforeEnvelope ==
    \A k \in 1..Len(Unwritten) :
        Unwritten[k].tag = "SEND_THEN_RECEIVE_RESPONSE" =>
            /\ Unwritten[k].packet.packet_id \in futures
            /\ future_state[Unwritten[k].packet.packet_id] = "pending"

\* The queue task has handed a request envelope to the running pipe loop,
\* which is about to write it, and the slot of its packet id is there.
C30_Witness ==
    /\ pipe = "running"
    /\ receive_from_queue_task.st = "done"
    /\ receive_from_queue_task.val[1].tag = "SEND_THEN_RECEIVE_RESPONSE"
    /\ receive_from_queue_task.val[1].packet.packet_id \in futures

\* ------------------------------------------------- C31

\* C31: every slot of the pending-slot map belongs to a future that is not
\* completed: neither resolved nor cancelled.
C31_NoSlotForCompletedFuture ==
    \A i \in futures : future_state[i] = "pending"

\* ------------------------------------------------- C32

\* C32: handling the response to a request whose future the caller has
\* cancelled leaves the pipe loop running, waiting for the next frame, and
\* every other slot and future as it was.
C32_LateResponseDropped ==
    [][(HandlesFrame /\ IsResponse(ReceivedFrame)
            /\ ReceivedFrame.packet_id \in futures
            /\ future_state[ReceivedFrame.packet_id] = "cancelled") =>
           /\ pipe' = "running"
           /\ receive_from_ws_task' = PendingTask
           /\ futures \ {ReceivedFrame.packet_id} \subseteq futures'
           /\ \A i \in RouterIds \ {ReceivedFrame.packet_id} :
                  future_state'[i] = future_state[i]]_vars

\* ------------------------------------------------- C33

\* C33: every step that writes to the transport is a step of the pipe loop
\* writing the one envelope the queue task has handed over; send,
\* send_response and the reply functions of the handlers, the steps that
\* enqueue, write nothing.
C33_OnlyPipeLoopWrites ==
    [][(wire' # wire) =>
           /\ pipe = "running"
           /\ receive_from_queue_task.st = "done"
           /\ wire' = Append(wire, receive_from_queue_task.val[1])
           /\ receive_from_queue_task' # receive_from_queue_task
           /\ item_queue' = item_queue
           /\ next_seq' = next_seq]_vars

\* The pipe loop has written the response a handler queued with its reply
\* function.
C33_Witness ==
    \E k \in 1..Len(wire) :
        /\ wire[k].tag = "SEND_RESPONSE"
        /\ wire[k].packet.packet_id \in replied

\* ------------------------------------------------- C34

\* The envelopes a step has put on the queue.
Enqueued == SubSeq(item_queue', Len(item_queue) + 1, Len(item_queue'))

\* C34: the receiver task started for an inbound request holds a reply
\* function bound to the packet id of that request, and the response a
\* receiver task queues carries the packet id its reply function is bound
\* to, whatever was received or answered since.
C34_ReplyCarriesRequestId ==
    [][/\ \A h \in handlers' \ handlers :
              /\ HandlesFrame
              /\ h.packet_id = ReceivedFrame.packet_id
              /\ ReceivedFrame.type = "request"
       /\ \A k \in 1..Len(Enqueued) :
              Enqueued[k].tag = "SEND_RESPONSE" =>
                  \E h \in handlers \ handlers' :
                      Enqueued[k].packet.packet_id = h.packet_id]_vars

\* A response was written for one inbound request while the receiver task
\* of another, received before or after it, has not replied.
C34_Witness ==
    /\ handlers # {}
    /\ \E k \in 1..Len(wire) :
           /\ wire[k].tag = "SEND_RESPONSE"
           /\ wire[k].packet.type = "response"
           /\ \A h \in handlers : h.packet_id # wire[k].packet.packet_id

\* ------------------------------------------------- C35

\* Every envelope enqueued so far is in exactly one place: written, held by
\* the queue task or queued.
NothingLostOrRepeated ==
    /\ Len(InFlight) = next_seq - 1
    /\ \A k \in 1..Len(InFlight) : InFlight[k].seq = k

\* C35: an iteration of the running pipe loop that handles a frame re-arms the
\* receive and keeps the queue task with its result; one that writes an
\* envelope re-arms the queue task and keeps the receive task with its
\* result; and while the loop runs every envelope enqueued is in one place
\* only.
C35_SourcesHandledOnce ==
    [][/\ (HandlesFrame /\ pipe' = "running") =>
              /\ receive_from_ws_task' = PendingTask
              /\ receive_from_queue_task' = receive_from_queue_task
       /\ (wire' # wire) =>
              /\ wire' = Append(wire, receive_from_queue_task.val[1])
              /\ receive_from_queue_task' = PendingTask
              /\ receive_from_ws_task' = receive_from_ws_task
       /\ (pipe' = "running") => NothingLostOrRepeated']_vars

\* The pipe loop has handled a frame and re-armed the receive while the queue
\* task holds an item it has not taken yet.
C35_Witness ==
    /\ pipe = "running"
    /\ last_frame # NoFrame
    /\ last_error = "none"
    /\ receive_from_ws_task = PendingTask
    /\ receive_from_queue_task.st = "done"

\* ------------------------------------------------- C36

\* C36: once the pipe loop has taken the CLOSE tuple (__is_open is False),
\* nothing is written to the transport and nothing is taken from the queue:
\* what was enqueued behind the tuple stays there.
C36_NothingWrittenAfterClose ==
    [][~is_open =>
           /\ wire' = wire
           /\ Len(item_queue') >= Len(item_queue)]_vars

\* The pipe loop has returned on CLOSE and an envelope enqueued behind the
\* tuple is still in the queue.
C36_Witness ==
    /\ pipe = "closed"
    /\ ~is_open
    /\ \E k \in 1..Len(item_queue) : item_queue[k].tag # EXIT_LITERAL

\* ------------------------------------------------- C37

\* C37: the step in which the pipe loop takes the CLOSE tuple leaves no
\* receive outstanding on the transport, and from then on no frame of the
\* peer is taken from it.
C37_CloseStopsReading ==
    [][/\ (is_open /\ ~is_open') => abandoned_receive' = "none"
       /\ ~is_open => frames' = frames]_vars

\* ------------------------------------------------- C38

\* C38: the pipe loop that _handle_ws starts on the connection of a
\* reconnect after a failed receive waits on a receive of that connection:
\* the receive task in its field is not the failed one of the connection
\* before.
C38_ReconnectArmsFreshReceive ==
    [][(mode = "client" /\ pipe = "connecting" /\ pipe' = "running"
            /\ attempted_connection_count > 0
            /\ last_error = "ReceiveError") =>
           receive_from_ws_task' = PendingTask]_vars

\* ------------------------------------------------- C39

\* An envelope is still unwritten although close() was called after it was
\* enqueued: no CLOSE tuple has been taken yet and the envelope is ahead of
\* one among the items not yet written.
UnwrittenBeforeClose ==
    /\ is_open
    /\ \E k, j \in 1..Len(Unwritten) :
           /\ k < j
           /\ Unwritten[k].tag # EXIT_LITERAL
           /\ Unwritten[j].tag = EXIT_LITERAL

\* C39: when the pipe loop has ended and the transport has not failed, no
\* envelope enqueued before the first call of close() is left unwritten.
C39_CloseWritesEarlierItems ==
    (pipe \in {"closed", "crashed"}
        /\ last_error \notin {"ReceiveError", "SendError"}) =>
            ~UnwrittenBeforeClose

\* ------------------------------------------------- C40

\* The IDENTIFY acknowledgment is at position k of the queue of Router n.
AckAt(n, k) ==
    /\ routers[n].item_queue[k].tag = "SEND_RESPONSE"
    /\ routers[n].item_queue[k].packet.packet_id = routers[n].ack

\* C40: a request of Server.request or request_all is queued only on a
\* Router whose acknowledgment has been queued, and behind it: an
\* acknowledgment still in the queue is ahead of every request.
C40_AcknowledgmentFirst ==
    \A n \in Sockets :
        \A k \in 1..Len(routers[n].item_queue) :
            routers[n].item_queue[k].tag = "SEND_THEN_RECEIVE_RESPONSE" =>
                /\ routers[n].ack # AbsentId
                /\ \A j \in 1..Len(routers[n].item_queue) :
                       AckAt(n, j) => j < k

\* A request was queued on a Router whose pipe loop has not yet taken the
\* acknowledgment: the acknowledgment is first, the request behind it.
C40_Witness ==
    \E n \in Sockets :
        /\ Len(routers[n].item_queue) >= 2
        /\ AckAt(n, 1)
        /\ routers[n].item_queue[2].tag = "SEND_THEN_RECEIVE_RESPONSE"

====
